---- MODULE Spec2Model ----
(***************************************************************************)
(* Model of aoc2015 day07 ("Some Assembly Required"): the memoized         *)
(* recursive wire resolver of src/bin/day07.rs, with its two callers       *)
(* solve_part1 and solve_part2.                                            *)
(*                                                                         *)
(* Strings are sequences of one-character strings, so that                 *)
(* term.parse::<u16>() and u16::to_string() are modelled digit by digit.   *)
(* The native recursion is an explicit stack with one frame per call of    *)
(* determine_target_wire_value_recursive (the evaluate_wire_value and      *)
(* get_term_value calls it makes are positions of that frame).             *)
(*                                                                         *)
(* Further down: day18 ("Like a GIF For Your Yard"), simulate_lightgrid of *)
(* src/bin/day18.rs, and day19 ("Medicine for Rudolph"), solve_part1 and   *)
(* solve_part2 of src/bin/day19.rs.  The three binaries are separate       *)
(* programs: each has its own variables and its own specification (Spec,   *)
(* SpecPasses and SpecFair for day07, SpecGrid, SpecMolecule), in which    *)
(* the other two programs' variables stay at their idle values.            *)
(***************************************************************************)
EXTENDS Integers, Sequences, FiniteSets, TLC

\* ------------------------------------------------------------------------
\* Bounds of the model
\* ------------------------------------------------------------------------

\* Number of nested determine_target_wire_value_recursive frames the native
\* stack holds before the process dies of stack exhaustion.  Larger than the
\* longest acyclic chain of the stores below, so only a cyclic store hits it.
MaxDepth == 6

\* ------------------------------------------------------------------------
\* u16 and its native operators
\* ------------------------------------------------------------------------

\* Width of the wire values (u16).
U16Bits == 16

\* u16::MAX + 1
U16Mod == 65536

\* Placeholder for "no value" (a local not yet bound, an Err, a None).
NoValue == -1

RECURSIVE BitAnd(_, _, _)
\* left & right on the low n bits
BitAnd(x, y, n) ==
    IF n = 0 THEN 0
    ELSE (IF x % 2 = 1 /\ y % 2 = 1 THEN 1 ELSE 0)
         + 2 * BitAnd(x \div 2, y \div 2, n - 1)

RECURSIVE BitOr(_, _, _)
\* left | right on the low n bits
BitOr(x, y, n) ==
    IF n = 0 THEN 0
    ELSE (IF x % 2 = 1 \/ y % 2 = 1 THEN 1 ELSE 0)
         + 2 * BitOr(x \div 2, y \div 2, n - 1)

RECURSIVE BitNot(_, _)
\* !left on the low n bits
BitNot(x, n) ==
    IF n = 0 THEN 0
    ELSE (1 - (x % 2)) + 2 * BitNot(x \div 2, n - 1)

RECURSIVE ShlBits(_, _)
\* x shifted left by n places inside 16 bits: the top bit falls off each time
ShlBits(x, n) ==
    IF n = 0 THEN x ELSE ShlBits((x % (U16Mod \div 2)) * 2, n - 1)

RECURSIVE ShrBits(_, _)
\* x shifted right by n places: the low bit falls off each time
ShrBits(x, n) ==
    IF n = 0 THEN x ELSE ShrBits(x \div 2, n - 1)

\* Faulty variant of And16: the operator of the Or arm
And16AsOr(l, r) == BitOr(l, r, U16Bits)

\* `left & right` (day07.rs:162)
And16(l, r) == BitAnd(l, r, U16Bits)

\* `left | right` (day07.rs:181)
Or16(l, r) == BitOr(l, r, U16Bits)

\* Faulty variant of Not16: arithmetic negation of a u16 (wrapping_neg)
Not16AsNegation(l) == (U16Mod - l) % U16Mod

\* `!left` (day07.rs:176)
Not16(l) == BitNot(l, U16Bits)

\* A shift by 16 or more overflows: with overflow checks (debug build, cargo
\* test) the process panics, without them the amount is masked to 4 bits.
ShiftOverflows(r) == r >= U16Bits

\* Faulty variant of Shl16: the shift done in a wider integer, nothing falls off
Shl16AsWide(l, r) == l * (2 ^ (r % U16Bits))

\* `left << right` (day07.rs:167) where it does not panic
Shl16(l, r) == ShlBits(l, r % U16Bits)

\* `left >> right` (day07.rs:172) where it does not panic
Shr16(l, r) == ShrBits(l, r % U16Bits)

\* ------------------------------------------------------------------------
\* Strings: parse::<u16>() and to_string()
\* ------------------------------------------------------------------------

Digits == <<"0", "1", "2", "3", "4", "5", "6", "7", "8", "9">>

IsDigit(c) == \E i \in 1..Len(Digits) : Digits[i] = c

DigitVal(c) == (CHOOSE i \in 1..Len(Digits) : Digits[i] = c) - 1

RECURSIVE ParseDigits(_, _)
\* The digit loop of u16::from_str: checked multiply and add, Err on a
\* character that is no digit and on overflow.
ParseDigits(s, acc) ==
    IF s = <<>> THEN acc
    ELSE IF ~IsDigit(Head(s)) THEN NoValue
    ELSE LET next == acc * 10 + DigitVal(Head(s))
         IN  IF next >= U16Mod THEN NoValue ELSE ParseDigits(Tail(s), next)

\* term.parse::<u16>() (day07.rs:192): the value, or NoValue for Err.
ParseU16(s) ==
    IF s = <<>> THEN NoValue
    ELSE IF Head(s) = "+" /\ Len(s) > 1 THEN ParseDigits(Tail(s), 0)
    ELSE ParseDigits(s, 0)

RECURSIVE DecimalString(_)
\* wire_a_value.to_string() (day07.rs:121): decimal, no leading zeros.
DecimalString(v) ==
    IF v < 10 THEN <<Digits[v + 1]>>
    ELSE Append(DecimalString(v \div 10), Digits[(v % 10) + 1])

\* ------------------------------------------------------------------------
\* Operations and stores
\* ------------------------------------------------------------------------

\* enum Operation (day07.rs:22-29)
Value(l) == [kind |-> "Value", left |-> l]
And(l, r) == [kind |-> "And", left |-> l, right |-> r]
LShift(l, r) == [kind |-> "LShift", left |-> l, right |-> r]
RShift(l, r) == [kind |-> "RShift", left |-> l, right |-> r]
Not(l) == [kind |-> "Not", left |-> l]
Or(l, r) == [kind |-> "Or", left |-> l, right |-> r]

IsBinary(op) == op.kind \in {"And", "LShift", "RShift", "Or"}

\* The empty HashMap
EmptyMap == [w \in {} |-> 0]

\* HashMap::insert
MapInsert(m, k, v) == [x \in (DOMAIN m) \cup {k} |-> IF x = k THEN v ELSE m[x]]

\* ------------------------------------------------------------------------
\* The stores and values the model runs on
\* ------------------------------------------------------------------------

WireA == <<"a">>
WireB == <<"b">>
WireC == <<"c">>
\* A wire name no store defines
WireZ == <<"z">>

Wires == {WireA, WireB, WireC}

\* An operation, or none: the wire has no line in the input file.
Undefined == [kind |-> "Undefined"]

\* The lines the input file may hold for wire a, b and c.  They cover fan-in
\* (b and c used twice), chains, the cycles a->a, a->b->a and b->c->b, names
\* that no line defines, a numeral that is no u16 and a shift by 16.
OpsForA ==
    { And(WireB, WireC), Or(WireC, WireB), And(WireB, WireB), Value(WireB),
      Not(WireB), LShift(WireB, DecimalString(1)), RShift(WireC, DecimalString(2)),
      Or(WireB, WireA), And(WireB, WireZ), Undefined }

OpsForB ==
    { Value(WireC), Not(WireC), Or(WireC, DecimalString(456)),
      LShift(WireC, DecimalString(16)), Value(DecimalString(456)), Value(WireA),
      Value(DecimalString(65536)), Undefined }

OpsForC ==
    { Value(DecimalString(123)), Not(DecimalString(0)), And(DecimalString(123), DecimalString(456)),
      LShift(DecimalString(65535), DecimalString(15)), Value(WireB), Undefined }

\* The store process_input_file builds from such lines (day07.rs:67-104)
StoreOf(opA, opB, opC) ==
    LET all == (WireA :> opA) @@ (WireB :> opB) @@ (WireC :> opC)
        def == {w \in Wires : all[w] # Undefined}
    IN  [w \in def |-> all[w]]

StructuralStores == {StoreOf(x, y, z) : x \in OpsForA, y \in OpsForB, z \in OpsForC}

\* Operand values of the one-line stores: the corners of u16, the values of
\* the puzzle text and alternating bit patterns.
SampleValues ==
    {0, 1, 2, 3, 123, 255, 256, 456, 21845, 32767, 32768, 43690, 65534, 65535}

\* Shift amounts of the one-line stores: every in-range amount, and amounts
\* of 16 and more.
SampleShifts == (0 .. (U16Bits - 1)) \cup {U16Bits, U16Bits + 1, 255, 65535}

\* One-line stores: wire a computed from literals alone.
LiteralOps ==
    {Value(DecimalString(l)) : l \in SampleValues}
    \cup {Not(DecimalString(l)) : l \in SampleValues}
    \cup {And(DecimalString(l), DecimalString(r)) : l \in SampleValues, r \in SampleValues}
    \cup {Or(DecimalString(l), DecimalString(r)) : l \in SampleValues, r \in SampleValues}
    \cup {LShift(DecimalString(l), DecimalString(r)) : l \in SampleValues, r \in SampleShifts}
    \cup {RShift(DecimalString(l), DecimalString(r)) : l \in SampleValues, r \in SampleShifts}

LiteralStores == {StoreOf(op, Undefined, Undefined) : op \in LiteralOps}

Stores == StructuralStores \cup LiteralStores

\* ------------------------------------------------------------------------
\* State
\* ------------------------------------------------------------------------

VARIABLES
    input,            \* the caller's store (main's `input`, day07.rs:36)
    new_wires,        \* solve_part2's modified copy (day07.rs:117)
    pass_ops,         \* which store the running pass borrows
    debug_assertions, \* whether the build checks arithmetic overflow
    caller,           \* the function that started the running pass
    status,           \* idle, running, returned, or how the process died
    target,           \* the target_wire of the running pass
    wire_values,      \* the pass's cache (day07.rs:130)
    stack,            \* the frames of determine_target_wire_value_recursive
    result,           \* the value the pass returned
    wire_a_value,     \* solve_part2's wire_a_value (day07.rs:115)
    evals,            \* instrumentation: evaluate_wire_value entries per wire
    returned,         \* instrumentation: value each completed call returned
    last_return,      \* instrumentation: the most recent return
    pass_log,         \* instrumentation: first value returned per target
    \* day18.rs
    lightgrid,        \* the caller's grid (simulate_lightgrid's parameter)
    steps,            \* the steps parameter
    stuck_on,         \* the stuck_on parameter
    old_lightgrid,    \* day18.rs:99
    new_lightgrid,    \* day18.rs:105
    keys,             \* what old_lightgrid.keys() has yet to yield (day18.rs:109)
    steps_done,       \* iterations of `for _ in 0..steps` completed
    grid_pc,          \* position in simulate_lightgrid
    computed,         \* instrumentation: locations determine_new_state ran for
    \* day19.rs
    replacements,     \* input.0 (day19.rs:79)
    med_molecule,     \* input.1 (day19.rs:79)
    rules_left,       \* what replacements.iter() has yet to yield (day19.rs:81)
    input_str,        \* the key of the rule in hand (day19.rs:81)
    window_i,         \* the window's left index `i` (day19.rs:82)
    observed,         \* day19.rs:80
    mol_pc,           \* position in day19's main
    solution          \* the value solve_part1 returned

day07vars ==
    <<input, new_wires, pass_ops, debug_assertions, caller, status, target,
      wire_values, stack, result, wire_a_value, evals, returned, last_return,
      pass_log>>

day18vars ==
    <<lightgrid, steps, stuck_on, old_lightgrid, new_lightgrid, keys, steps_done,
      grid_pc, computed>>

day19vars ==
    <<replacements, med_molecule, rules_left, input_str, window_i, observed,
      mol_pc, solution>>

vars == <<day07vars, day18vars, day19vars>>

\* What a step of day07 leaves alone besides its own variables
NotDay07 == <<pass_log, day18vars, day19vars>>

\* The store the running pass borrows (the `wire_ops` parameter)
WireOps == IF pass_ops = "new_wires" THEN new_wires ELSE input

Top == stack[Len(stack)]

NoReturn == [wire |-> <<>>, value |-> NoValue]

Frame(w) ==
    [wire |-> w, pc |-> "check", left |-> NoValue, right |-> NoValue,
     wire_value |-> NoValue]

\* day07 is not the program that runs
Day07Idle ==
    /\ input = EmptyMap
    /\ new_wires = EmptyMap
    /\ pass_ops = "input"
    /\ debug_assertions = FALSE
    /\ caller = "none"
    /\ status = "not_run"
    /\ target = <<>>
    /\ wire_values = EmptyMap
    /\ stack = <<>>
    /\ result = NoValue
    /\ wire_a_value = NoValue
    /\ evals = EmptyMap
    /\ returned = EmptyMap
    /\ last_return = [wire |-> <<>>, value |-> NoValue]
    /\ pass_log = [on |-> FALSE, value |-> EmptyMap]

\* day18 is not the program that runs
Day18Idle ==
    /\ lightgrid = EmptyMap
    /\ steps = 0
    /\ stuck_on = {}
    /\ old_lightgrid = EmptyMap
    /\ new_lightgrid = EmptyMap
    /\ keys = {}
    /\ steps_done = 0
    /\ grid_pc = "not_run"
    /\ computed = {}

\* day19 is not the program that runs
Day19Idle ==
    /\ replacements = EmptyMap
    /\ med_molecule = <<>>
    /\ rules_left = {}
    /\ input_str = <<>>
    /\ window_i = 0
    /\ observed = {}
    /\ mol_pc = "not_run"
    /\ solution = NoValue

\* day07's main has read its input file; no pass has run.
Day07Init ==
    /\ input \in Stores
    /\ new_wires = EmptyMap
    /\ pass_ops = "input"
    /\ debug_assertions \in BOOLEAN
    /\ caller = "none"
    /\ status = "idle"
    /\ target = <<>>
    /\ wire_values = EmptyMap
    /\ stack = <<>>
    /\ result = NoValue
    /\ wire_a_value = NoValue
    /\ evals = EmptyMap
    /\ returned = EmptyMap
    /\ last_return = NoReturn

Init ==
    /\ Day07Init
    /\ pass_log = [on |-> FALSE, value |-> EmptyMap]
    /\ Day18Idle
    /\ Day19Idle

\* ------------------------------------------------------------------------
\* determine_target_wire_value and its callers
\* ------------------------------------------------------------------------

\* Faulty variant of NewCache: the cache of the pass before is kept
NewCacheAsKept(old) == old

\* `let mut wire_values = HashMap::new()` (day07.rs:130)
NewCache(old) == EmptyMap

\* determine_target_wire_value(t, store) (day07.rs:129-132): a fresh cache,
\* then the first call of determine_target_wire_value_recursive.
StartPass(t, store, who) ==
    /\ pass_ops' = store
    /\ target' = t
    /\ caller' = who
    /\ status' = "running"
    /\ wire_values' = NewCache(wire_values)
    /\ stack' = <<Frame(t)>>
    /\ result' = NoValue
    /\ evals' = EmptyMap
    /\ returned' = EmptyMap
    /\ last_return' = NoReturn

\* A call of determine_target_wire_value for any target name.
DetermineTargetWireValue ==
    /\ UNCHANGED NotDay07
    /\ status = "idle"
    /\ \E t \in Wires \cup {WireZ} : StartPass(t, "input", "direct")
    /\ UNCHANGED <<input, new_wires, debug_assertions, wire_a_value>>

\* solve_part1 (day07.rs:107-109)
SolvePart1 ==
    /\ UNCHANGED NotDay07
    /\ status = "idle"
    /\ StartPass(WireA, "input", "solve_part1")
    /\ UNCHANGED <<input, new_wires, debug_assertions, wire_a_value>>

\* solve_part2, first pass (day07.rs:115)
SolvePart2 ==
    /\ UNCHANGED NotDay07
    /\ status = "idle"
    /\ StartPass(WireA, "input", "solve_part2")
    /\ UNCHANGED <<input, new_wires, debug_assertions, wire_a_value>>

\* Faulty variant of SolvePart2Override: wire b is overridden in the caller's store
SolvePart2OverrideAsInPlace ==
    /\ UNCHANGED NotDay07
    /\ status = "returned"
    /\ caller = "solve_part2"
    /\ pass_ops = "input"
    /\ new_wires = EmptyMap
    /\ wire_a_value' = result
    /\ input' = MapInsert(input, WireB, Value(DecimalString(result)))
    /\ new_wires' = input'
    /\ StartPass(WireA, "new_wires", "solve_part2")
    /\ UNCHANGED <<debug_assertions>>

\* solve_part2, the override and the second pass (day07.rs:115-125): the
\* clone of the store gets wire b set to the decimal text of the first value.
SolvePart2Override ==
    /\ UNCHANGED NotDay07
    /\ status = "returned"
    /\ caller = "solve_part2"
    /\ pass_ops = "input"
    /\ wire_a_value' = result
    /\ new_wires' = MapInsert(input, WireB, Value(DecimalString(result)))
    /\ StartPass(WireA, "new_wires", "solve_part2")
    /\ UNCHANGED <<input, debug_assertions>>

\* The pass's value goes back to main, and the pass's locals are dropped.
\* (Where the log is kept, it takes the first value returned for the target.)
ReturnToMain ==
    /\ status = "returned"
    /\ ~(caller = "solve_part2" /\ pass_ops = "input")
    /\ status' = "idle"
    /\ caller' = "none"
    /\ pass_ops' = "input"
    /\ new_wires' = EmptyMap
    /\ target' = <<>>
    /\ wire_values' = EmptyMap
    /\ stack' = <<>>
    /\ result' = NoValue
    /\ wire_a_value' = NoValue
    /\ evals' = EmptyMap
    /\ returned' = EmptyMap
    /\ last_return' = NoReturn
    /\ pass_log' = IF pass_log.on /\ pass_ops = "input"
                      /\ target \notin DOMAIN pass_log.value
                   THEN [pass_log EXCEPT !.value = MapInsert(@, target, result)]
                   ELSE pass_log
    /\ UNCHANGED <<input, debug_assertions, day18vars, day19vars>>

\* ------------------------------------------------------------------------
\* determine_target_wire_value_recursive, evaluate_wire_value, get_term_value
\* ------------------------------------------------------------------------

\* Faulty variant of CacheHit: the lookup never finds an entry
CacheHitAsNever(cache, w) == FALSE

\* `if let Entry::Occupied(e) = wire_values.entry(..)` (day07.rs:141)
CacheHit(cache, w) == w \in DOMAIN cache

\* Faulty variant of CacheInsert: the left operand's value is recorded, not
\* the operation's
CacheInsertAsLeftOperand(cache, w, v) == MapInsert(cache, w, Top.left)

\* Faulty variant of CacheInsert: the value is not recorded
CacheInsertAsDropped(cache, w, v) == cache

\* Faulty variant of CacheInsert: the value is recorded under the pass's target
CacheInsertAsTarget(cache, w, v) == MapInsert(cache, target, v)

\* `wire_values.insert(target_wire.to_string(), wire_value)` (day07.rs:147)
CacheInsert(cache, w, v) == MapInsert(cache, w, v)

\* Faulty variant of Deliver: the right operand is bound to the left operand's value
DeliverAsLeftTwice(f, v) ==
    IF f.pc = "left"
    THEN [f EXCEPT !.left = v,
                   !.pc = IF IsBinary(WireOps[f.wire]) THEN "right" ELSE "apply"]
    ELSE [f EXCEPT !.right = f.left, !.pc = "apply"]

\* The frame that called get_term_value takes the term's value: the left
\* operand, then (for a two-operand operation) the right one (day07.rs:158-182).
Deliver(f, v) ==
    IF f.pc = "left"
    THEN [f EXCEPT !.left = v,
                   !.pc = IF IsBinary(WireOps[f.wire]) THEN "right" ELSE "apply"]
    ELSE [f EXCEPT !.right = v, !.pc = "apply"]

\* A return of determine_target_wire_value_recursive for wire w with value v,
\* to the get_term_value that called it or to determine_target_wire_value.
ReturnValue(w, v) ==
    LET rest == SubSeq(stack, 1, Len(stack) - 1)
    IN  /\ returned' = MapInsert(returned, w, v)
        /\ last_return' = [wire |-> w, value |-> v]
        /\ IF rest = <<>>
           THEN /\ stack' = <<>>
                /\ status' = "returned"
                /\ result' = v
           ELSE /\ stack' = [rest EXCEPT ![Len(rest)] = Deliver(rest[Len(rest)], v)]
                /\ UNCHANGED <<status, result>>

\* The wire's value is in the cache: return it (day07.rs:141-143).
RecursiveCached ==
    /\ UNCHANGED NotDay07
    /\ status = "running"
    /\ Top.pc = "check"
    /\ CacheHit(wire_values, Top.wire)
    /\ ReturnValue(Top.wire, wire_values[Top.wire])
    /\ UNCHANGED <<input, new_wires, pass_ops, debug_assertions, caller, target,
                   wire_values, wire_a_value, evals>>

\* Faulty variant of RecursiveEvaluate: the wire gets a cache entry (0) on
\* entry, before its operation is evaluated
RecursiveEvaluateAsPlaceholder ==
    /\ UNCHANGED NotDay07
    /\ status = "running"
    /\ Top.pc = "check"
    /\ ~CacheHit(wire_values, Top.wire)
    /\ stack' = [stack EXCEPT ![Len(stack)].pc = "match"]
    /\ wire_values' = MapInsert(wire_values, Top.wire, 0)
    /\ evals' = MapInsert(evals, Top.wire,
                          IF Top.wire \in DOMAIN evals THEN evals[Top.wire] + 1 ELSE 1)
    /\ UNCHANGED <<input, new_wires, pass_ops, debug_assertions, caller, status,
                   target, result, wire_a_value, returned, last_return>>

\* The wire's value is not in the cache: evaluate_wire_value is entered
\* (day07.rs:145).
RecursiveEvaluate ==
    /\ UNCHANGED NotDay07
    /\ status = "running"
    /\ Top.pc = "check"
    /\ ~CacheHit(wire_values, Top.wire)
    /\ stack' = [stack EXCEPT ![Len(stack)].pc = "match"]
    /\ evals' = MapInsert(evals, Top.wire,
                          IF Top.wire \in DOMAIN evals THEN evals[Top.wire] + 1 ELSE 1)
    /\ UNCHANGED <<input, new_wires, pass_ops, debug_assertions, caller, status,
                   target, wire_values, result, wire_a_value, returned, last_return>>

\* `wire_ops.get(wire).unwrap()` finds the wire's operation (day07.rs:157).
EvaluateMatch ==
    /\ UNCHANGED NotDay07
    /\ status = "running"
    /\ Top.pc = "match"
    /\ Top.wire \in DOMAIN WireOps
    /\ stack' = [stack EXCEPT ![Len(stack)].pc = "left"]
    /\ UNCHANGED <<input, new_wires, pass_ops, debug_assertions, caller, status,
                   target, wire_values, result, wire_a_value, evals, returned,
                   last_return>>

\* Faulty variant of EvaluateMissing: a wire without an entry counts as 0
\* (unwrap_or_default in place of unwrap)
EvaluateMissingAsZero ==
    /\ UNCHANGED NotDay07
    /\ status = "running"
    /\ Top.pc = "match"
    /\ Top.wire \notin DOMAIN WireOps
    /\ stack' = [stack EXCEPT ![Len(stack)].wire_value = 0,
                              ![Len(stack)].pc = "insert"]
    /\ UNCHANGED <<input, new_wires, pass_ops, debug_assertions, caller, status,
                   target, wire_values, result, wire_a_value, evals, returned,
                   last_return>>

\* `wire_ops.get(wire).unwrap()` panics on None: the wire has no entry
\* (day07.rs:157).
EvaluateMissing ==
    /\ UNCHANGED NotDay07
    /\ status = "running"
    /\ Top.pc = "match"
    /\ Top.wire \notin DOMAIN WireOps
    /\ status' = "panic_missing"
    /\ UNCHANGED <<input, new_wires, pass_ops, debug_assertions, caller, target,
                   wire_values, stack, result, wire_a_value, evals, returned,
                   last_return>>

\* The term get_term_value is called with next by the top frame.
TopTerm == IF Top.pc = "left" THEN WireOps[Top.wire].left ELSE WireOps[Top.wire].right

\* Faulty variant of GetTermLiteral: the number is also put in the cache,
\* under the term
GetTermLiteralAsCached ==
    /\ UNCHANGED NotDay07
    /\ status = "running"
    /\ Top.pc \in {"left", "right"}
    /\ ParseU16(TopTerm) # NoValue
    /\ stack' = [stack EXCEPT ![Len(stack)] = Deliver(Top, ParseU16(TopTerm))]
    /\ wire_values' = MapInsert(wire_values, TopTerm, ParseU16(TopTerm))
    /\ UNCHANGED <<input, new_wires, pass_ops, debug_assertions, caller, status,
                   target, result, wire_a_value, evals, returned, last_return>>

\* get_term_value on a term that parses as a u16 (day07.rs:192-193)
GetTermLiteral ==
    /\ UNCHANGED NotDay07
    /\ status = "running"
    /\ Top.pc \in {"left", "right"}
    /\ ParseU16(TopTerm) # NoValue
    /\ stack' = [stack EXCEPT ![Len(stack)] = Deliver(Top, ParseU16(TopTerm))]
    /\ UNCHANGED <<input, new_wires, pass_ops, debug_assertions, caller, status,
                   target, wire_values, result, wire_a_value, evals, returned,
                   last_return>>

\* Faulty variant of GetTermReference: the recursive call is made for the
\* wire in hand, not for the term
GetTermReferenceAsOwnWire ==
    /\ UNCHANGED NotDay07
    /\ status = "running"
    /\ Top.pc \in {"left", "right"}
    /\ ParseU16(TopTerm) = NoValue
    /\ Len(stack) < MaxDepth
    /\ stack' = Append(stack, Frame(Top.wire))
    /\ UNCHANGED <<input, new_wires, pass_ops, debug_assertions, caller, status,
                   target, wire_values, result, wire_a_value, evals, returned,
                   last_return>>

\* get_term_value on any other term: the term is a wire name (day07.rs:195)
GetTermReference ==
    /\ UNCHANGED NotDay07
    /\ status = "running"
    /\ Top.pc \in {"left", "right"}
    /\ ParseU16(TopTerm) = NoValue
    /\ Len(stack) < MaxDepth
    /\ stack' = Append(stack, Frame(TopTerm))
    /\ UNCHANGED <<input, new_wires, pass_ops, debug_assertions, caller, status,
                   target, wire_values, result, wire_a_value, evals, returned,
                   last_return>>

\* The same call with the native stack used up: the process dies.
StackOverflow ==
    /\ UNCHANGED NotDay07
    /\ status = "running"
    /\ Top.pc \in {"left", "right"}
    /\ ParseU16(TopTerm) = NoValue
    /\ Len(stack) >= MaxDepth
    /\ status' = "stack_overflow"
    /\ UNCHANGED <<input, new_wires, pass_ops, debug_assertions, caller, target,
                   wire_values, stack, result, wire_a_value, evals, returned,
                   last_return>>

\* The arms of the match in evaluate_wire_value (day07.rs:157-183)
OpResult(op, l, r) ==
    CASE op.kind = "Value" -> l
      [] op.kind = "And" -> And16(l, r)
      [] op.kind = "LShift" -> Shl16(l, r)
      [] op.kind = "RShift" -> Shr16(l, r)
      [] op.kind = "Not" -> Not16(l)
      [] op.kind = "Or" -> Or16(l, r)

\* Faulty variant of OpPanics: the overflow check is made in every build
OpPanicsAsAlways(op, r) ==
    /\ op.kind \in {"LShift", "RShift"}
    /\ ShiftOverflows(r)

\* Whether the arm panics: a shift by 16 or more in a build that checks
\* arithmetic overflow (day07.rs:167, 172).
OpPanics(op, r) ==
    /\ debug_assertions
    /\ op.kind \in {"LShift", "RShift"}
    /\ ShiftOverflows(r)

\* evaluate_wire_value returns the operation's value (day07.rs:158-182)
EvaluateApply ==
    /\ UNCHANGED NotDay07
    /\ status = "running"
    /\ Top.pc = "apply"
    /\ ~OpPanics(WireOps[Top.wire], Top.right)
    /\ stack' = [stack EXCEPT
                   ![Len(stack)].wire_value = OpResult(WireOps[Top.wire], Top.left, Top.right),
                   ![Len(stack)].pc = "insert"]
    /\ UNCHANGED <<input, new_wires, pass_ops, debug_assertions, caller, status,
                   target, wire_values, result, wire_a_value, evals, returned,
                   last_return>>

\* "attempt to shift left/right with overflow" (day07.rs:167, 172)
ShiftPanic ==
    /\ UNCHANGED NotDay07
    /\ status = "running"
    /\ Top.pc = "apply"
    /\ OpPanics(WireOps[Top.wire], Top.right)
    /\ status' = "panic_overflow"
    /\ UNCHANGED <<input, new_wires, pass_ops, debug_assertions, caller, target,
                   wire_values, stack, result, wire_a_value, evals, returned,
                   last_return>>

\* The value is recorded in the cache and returned (day07.rs:147-148).
RecursiveInsert ==
    /\ UNCHANGED NotDay07
    /\ status = "running"
    /\ Top.pc = "insert"
    /\ wire_values' = CacheInsert(wire_values, Top.wire, Top.wire_value)
    /\ ReturnValue(Top.wire, Top.wire_value)
    /\ UNCHANGED <<input, new_wires, pass_ops, debug_assertions, caller, target,
                   wire_a_value, evals>>

Next ==
    \/ DetermineTargetWireValue
    \/ SolvePart1
    \/ SolvePart2
    \/ SolvePart2Override
    \/ ReturnToMain
    \/ RecursiveCached
    \/ RecursiveEvaluate
    \/ EvaluateMatch
    \/ EvaluateMissing
    \/ GetTermLiteral
    \/ GetTermReference
    \/ StackOverflow
    \/ EvaluateApply
    \/ ShiftPanic
    \/ RecursiveInsert

Spec == Init /\ [][Next]_vars

\* ------------------------------------------------------------------------
\* The dependency graph of a store, and the cache-free value of a wire
\* ------------------------------------------------------------------------

\* The terms of an operation
Operands(op) == IF IsBinary(op) THEN {op.left, op.right} ELSE {op.left}

\* The terms of an operation that get_term_value takes for wire names
Refs(op) == {t \in Operands(op) : ParseU16(t) = NoValue}

RECURSIVE Closure(_, _)
\* The names in S and every name referenced from them, directly or not
Closure(ops, S) ==
    LET more == S \cup UNION {Refs(ops[w]) : w \in S \cap DOMAIN ops}
    IN  IF more = S THEN S ELSE Closure(ops, more)

\* The target and every wire name reached through its operands
Reach(ops, t) == Closure(ops, {t})

\* Every name reached from t has an entry in the store
FullyDefined(ops, t) == Reach(ops, t) \subseteq DOMAIN ops

\* Some wire reached from t is reached from its own operands
Cyclic(ops, t) ==
    \E w \in Reach(ops, t) \cap DOMAIN ops : w \in Closure(ops, Refs(ops[w]))

\* 2^n
Pow2(n) == 2 ^ n

\* The positions of the one bits of a u16
BitsOf(x) == {i \in 0 .. (U16Bits - 1) : (x \div Pow2(i)) % 2 = 1}

RECURSIVE FromBits(_)
\* The number with exactly these one bits
FromBits(S) ==
    IF S = {} THEN 0
    ELSE LET i == CHOOSE j \in S : TRUE IN Pow2(i) + FromBits(S \ {i})

\* The value of an operation on operand values l and r, stated arithmetically
\* (a shift amount of 16 or more is the native one: masked to four bits).
ArithValue(op, l, r) ==
    CASE op.kind = "Value" -> l
      [] op.kind = "And" -> FromBits(BitsOf(l) \cap BitsOf(r))
      [] op.kind = "Or" -> FromBits(BitsOf(l) \cup BitsOf(r))
      [] op.kind = "LShift" -> (l * Pow2(r % U16Bits)) % U16Mod
      [] op.kind = "RShift" -> l \div Pow2(r % U16Bits)
      [] op.kind = "Not" -> (U16Mod - 1) - l

RECURSIVE PlainValue(_, _, _)
\* The value of wire w by plain recursion on its operation, with no cache:
\* a literal operand is its number, a reference operand the value of the wire.
\* NoValue where there is none: a name without an entry, a panicking shift,
\* or more nested references than the store has wires (a cycle).
PlainValue(ops, w, fuel) ==
    IF fuel = 0 \/ w \notin DOMAIN ops THEN NoValue
    ELSE LET op == ops[w]
             term(t) == IF ParseU16(t) # NoValue THEN ParseU16(t)
                        ELSE PlainValue(ops, t, fuel - 1)
             l == term(op.left)
             r == IF IsBinary(op) THEN term(op.right) ELSE 0
         IN  IF l = NoValue \/ r = NoValue THEN NoValue
             ELSE IF debug_assertions /\ op.kind \in {"LShift", "RShift"}
                     /\ r >= U16Bits THEN NoValue
             ELSE ArithValue(op, l, r)

CacheFreeValue(ops, w) == PlainValue(ops, w, Cardinality(DOMAIN ops))

\* The frames whose operation has been evaluated and is about to be recorded
Evaluated == {i \in 1 .. Len(stack) : stack[i].pc = "insert"}

\* ------------------------------------------------------------------------
\* Claims
\* ------------------------------------------------------------------------

\* C1 as stated: in one pass, evaluate_wire_value is entered at most once for
\* each wire name, whatever the store.
C1_EvaluatedAtMostOnceAnyStore ==
    \A w \in DOMAIN evals : evals[w] <= 1

\* C1 amended: in one pass over a store that has no reference cycle reachable
\* from the target, evaluate_wire_value is entered at most once for each wire
\* name, and every call that has returned for a name returned its cached value.
C1_EvaluatedAtMostOnce ==
    ~Cyclic(WireOps, target) =>
        /\ \A w \in DOMAIN evals : evals[w] <= 1
        /\ \A w \in DOMAIN returned :
              w \in DOMAIN wire_values /\ returned[w] = wire_values[w]

\* A pass has returned in which wire b was referenced twice and evaluated once.
C1_Witness ==
    /\ status = "returned"
    /\ target = WireA
    /\ WireOps[WireA] = And(WireB, WireB)
    /\ evals[WireB] = 1

\* C2: when a pass returns, its value is the cache-free value of the target
\* (literal operand: its number; reference operand: the wire's value), and a
\* pass over an acyclic, fully defined store ends without a value only where
\* the cache-free recursion has none either (a panicking shift).
C2_ResolvesToCacheFreeValue ==
    /\ status = "returned" =>
          result # NoValue /\ result = CacheFreeValue(WireOps, target)
    /\ (status \notin {"idle", "running", "returned"}
          /\ ~Cyclic(WireOps, target) /\ FullyDefined(WireOps, target)) =>
          status = "panic_overflow" /\ CacheFreeValue(WireOps, target) = NoValue

\* {c: 123, b: 456, a: b AND c} has resolved a to 72.
C2_Witness ==
    /\ status = "returned"
    /\ target = WireA
    /\ WireOps = StoreOf(And(WireB, WireC), Value(DecimalString(456)),
                         Value(DecimalString(123)))
    /\ result = 72

\* C3: a Not operation on operand value v yields 65535 - v, a value in
\* 0..65535; Not(123) yields 65412 (and there the whole table of !v is
\* compared with 65535 - v).
C3_NotIsComplement ==
    /\ \A i \in Evaluated :
          WireOps[stack[i].wire].kind = "Not" =>
             /\ stack[i].left \in 0 .. 65535
             /\ stack[i].wire_value = 65535 - stack[i].left
             /\ stack[i].wire_value \in 0 .. 65535
    /\ (status = "returned" /\ target = WireA /\ WireA \in DOMAIN WireOps
          /\ WireOps[WireA] = Not(DecimalString(123))) =>
             /\ result = 65412
             /\ (caller = "solve_part1" /\ debug_assertions) =>
                   \A v \in 0 .. 65535 : Not16(v) = 65535 - v

\* Not(123) has resolved to 65412.
C3_Witness ==
    /\ status = "returned"
    /\ target = WireA
    /\ WireOps[WireA] = Not(DecimalString(123))
    /\ result = 65412

\* C4: with a shift amount n in 0..15, LShift yields (v * 2^n) mod 65536 and
\* RShift yields v div 2^n, and the shift does not panic; LShift(123, 2) is
\* 492 and RShift(456, 2) is 114.
C4_ShiftSemantics ==
    /\ \A i \in Evaluated :
          LET f == stack[i]
              op == WireOps[f.wire]
          IN  (op.kind \in {"LShift", "RShift"} /\ f.right \in 0 .. 15) =>
                 /\ f.left \in 0 .. 65535
                 /\ f.wire_value \in 0 .. 65535
                 /\ op.kind = "LShift" => f.wire_value = (f.left * (2 ^ f.right)) % 65536
                 /\ op.kind = "RShift" => f.wire_value = f.left \div (2 ^ f.right)
    /\ status = "panic_overflow" => Top.right >= 16
    /\ (status = "returned" /\ target = WireA /\ WireA \in DOMAIN WireOps) =>
          /\ WireOps[WireA] = LShift(DecimalString(123), DecimalString(2)) => result = 492
          /\ WireOps[WireA] = RShift(DecimalString(456), DecimalString(2)) => result = 114
          /\ (WireOps[WireA] = LShift(DecimalString(65535), DecimalString(15))
                /\ caller = "solve_part1" /\ debug_assertions) =>
                \A v \in 0 .. 65535 : \A n \in 0 .. 15 :
                   /\ Shl16(v, n) = (v * (2 ^ n)) % 65536
                   /\ Shr16(v, n) = v \div (2 ^ n)

\* LShift(123, 2) has resolved to 492.
C4_Witness ==
    /\ status = "returned"
    /\ target = WireA
    /\ WireOps[WireA] = LShift(DecimalString(123), DecimalString(2))
    /\ result = 492

\* C5: an And operation yields the number whose one bits are the bits set in
\* both operand values, an Or operation the number whose one bits are the
\* bits set in either; And(123, 456) is 72 and Or(123, 456) is 507.
C5_AndOrBitwise ==
    /\ \A i \in Evaluated :
          LET f == stack[i]
              op == WireOps[f.wire]
          IN  /\ op.kind = "And" =>
                    BitsOf(f.wire_value) = BitsOf(f.left) \cap BitsOf(f.right)
                    /\ f.wire_value \in 0 .. 65535
              /\ op.kind = "Or" =>
                    BitsOf(f.wire_value) = BitsOf(f.left) \cup BitsOf(f.right)
                    /\ f.wire_value \in 0 .. 65535
    /\ (status = "returned" /\ target = WireA /\ WireA \in DOMAIN WireOps) =>
          /\ WireOps[WireA] = And(DecimalString(123), DecimalString(456)) => result = 72
          /\ WireOps[WireA] = Or(DecimalString(123), DecimalString(456)) => result = 507

\* And(123, 456) has resolved to 72.
C5_Witness ==
    /\ status = "returned"
    /\ target = WireA
    /\ WireOps[WireA] = And(DecimalString(123), DecimalString(456))
    /\ result = 72

\* Some shift reached from t has an amount of 16 or more
OverflowShift(ops, t) ==
    \E w \in Reach(ops, t) \cap DOMAIN ops :
        /\ ops[w].kind \in {"LShift", "RShift"}
        /\ LET r == ops[w].right
           IN  IF ParseU16(r) # NoValue THEN ParseU16(r) >= U16Bits
               ELSE CacheFreeValue(ops, r) >= U16Bits

\* The pass has ended: it returned, or the process died
Ended == status \notin {"idle", "running"}

\* C6 as stated: a pass whose target reaches a name with no entry in the store
\* ends only by the missing-definition failure.
C6_MissingAlwaysSignalled ==
    (Ended /\ ~FullyDefined(WireOps, target)) => status = "panic_missing"

\* C6 amended: a pass whose target reaches a name with no entry in the store
\* never returns a value; it ends by the missing-definition failure unless it
\* first runs into a reference cycle (stack exhaustion) or, in a build with
\* overflow checks, into a shift by 16 or more (overflow panic).
C6_MissingNeverReturns ==
    ~FullyDefined(WireOps, target) =>
        /\ status # "returned"
        /\ (Ended /\ ~Cyclic(WireOps, target)
              /\ ~(debug_assertions /\ OverflowShift(WireOps, target))) =>
              status = "panic_missing"
        /\ status = "stack_overflow" => Cyclic(WireOps, target)
        /\ status = "panic_overflow" =>
              debug_assertions /\ OverflowShift(WireOps, target)

\* A pass for a defined target has died on a name reached through its operands.
C6_Witness ==
    /\ status = "panic_missing"
    /\ target \in DOMAIN WireOps
    /\ Top.wire # target
    /\ Top.wire \in Reach(WireOps, target)

\* C7: in solve_part2's second pass, wire_a_value is the value V of a in the
\* caller's store S; the pass runs on S' = S except b -> Value(V as text),
\* whose b resolves to V; the cache holds only values evaluated in this pass
\* under S'; and the value returned is the value of a under S'.
C7_SecondPassFreshOverride ==
    (caller = "solve_part2" /\ pass_ops = "new_wires") =>
        /\ wire_a_value # NoValue
        /\ wire_a_value = CacheFreeValue(input, WireA)
        /\ DOMAIN new_wires = DOMAIN input \cup {WireB}
        /\ \A w \in DOMAIN input \ {WireB} : new_wires[w] = input[w]
        /\ new_wires[WireB].kind = "Value"
        /\ ParseU16(new_wires[WireB].left) = wire_a_value
        /\ \A w \in DOMAIN wire_values :
              /\ w \in DOMAIN evals /\ evals[w] = 1
              /\ wire_values[w] = CacheFreeValue(new_wires, w)
        /\ status = "returned" => result = CacheFreeValue(new_wires, WireA)

\* solve_part2 has returned a value that differs from the first pass's value.
C7_Witness ==
    /\ caller = "solve_part2"
    /\ pass_ops = "new_wires"
    /\ status = "returned"
    /\ WireB \in DOMAIN input
    /\ WireB \in Reach(input, WireA)
    /\ result # wire_a_value

\* C8: a call of determine_target_wire_value_recursive for a wire for which a
\* call with this cache has already returned is a single step that returns
\* the same value, enters no evaluation and leaves the cache unchanged.
C8_SecondCallFromCache ==
    [][(status = "running" /\ Top.pc = "check" /\ Top.wire \in DOMAIN returned) =>
          /\ last_return' = [wire |-> Top.wire, value |-> returned[Top.wire]]
          /\ Len(stack') = Len(stack) - 1
          /\ evals' = evals
          /\ wire_values' = wire_values
          /\ returned' = returned]_vars

\* The second call for wire b (a: b AND b) has just returned b's value.
C8_Witness ==
    /\ status = "running"
    /\ Len(stack) = 1
    /\ Top.wire \in DOMAIN WireOps
    /\ WireOps[Top.wire] = And(WireB, WireB)
    /\ Top.pc = "apply"
    /\ last_return = [wire |-> WireB, value |-> Top.right]
    /\ Top.left = Top.right
    /\ evals[WireB] = 1

\* C9: when a pass returns, the cache holds an entry for the target and for
\* every wire reached through its operands, for no other name, and the
\* target's entry is the returned value.
C9_CacheIsReachableSet ==
    status = "returned" =>
        /\ ~Cyclic(WireOps, target) /\ FullyDefined(WireOps, target)
        /\ DOMAIN wire_values = Reach(WireOps, target)
        /\ wire_values[target] = result

\* A pass for b has returned with entries for b and c and none for a.
C9_Witness ==
    /\ status = "returned"
    /\ target = WireB
    /\ WireA \in DOMAIN WireOps
    /\ DOMAIN wire_values = {WireB, WireC}

\* C10: no step changes the caller's store; a step of a running pass changes
\* neither the store it borrows nor solve_part2's copy nor any other state
\* than the pass's cache, frames and outcome.
C10_StoreNeverMutated ==
    [][/\ input' = input
       /\ debug_assertions' = debug_assertions
       /\ status = "running" =>
             /\ WireOps' = WireOps
             /\ new_wires' = new_wires
             /\ pass_ops' = pass_ops
             /\ wire_a_value' = wire_a_value
             /\ target' = target
             /\ caller' = caller]_vars

\* solve_part2 has returned from a copy whose wire b differs from the caller's.
C10_Witness ==
    /\ caller = "solve_part2"
    /\ pass_ops = "new_wires"
    /\ status = "returned"
    /\ WireB \in DOMAIN input
    /\ new_wires[WireB] # input[WireB]
    /\ result # NoValue

\* ------------------------------------------------------------------------
\* C11: literal operands
\* ------------------------------------------------------------------------

RECURSIVE Pow10(_)
Pow10(n) == IF n = 0 THEN 1 ELSE 10 * Pow10(n - 1)

\* The number a string of decimal digits denotes, by place value
NumeralValue(s) ==
    LET at(k) == DigitVal(s[k]) * Pow10(Len(s) - k)
        sum[k \in 0 .. Len(s)] == IF k = 0 THEN 0 ELSE sum[k - 1] + at(k)
    IN  sum[Len(s)]

\* get_term_value is about to run on a term that parses as a u16
LiteralOperandNext ==
    /\ status = "running"
    /\ stack # <<>>
    /\ Top.pc \in {"left", "right"}
    /\ Top.wire \in DOMAIN WireOps
    /\ ParseU16(TopTerm) # NoValue

\* C11: resolving a literal operand yields the number the term denotes, a
\* number in 0..65535, to the operation that asked for it, and nothing else
\* happens: no call of determine_target_wire_value_recursive (the call path
\* keeps its length, no return and no evaluation is recorded), so the cache is
\* not read, and the cache is left as it was.
C11_LiteralYieldsNumberNoCache ==
    [][LiteralOperandNext =>
         /\ NumeralValue(TopTerm) \in 0 .. (U16Mod - 1)
         /\ Len(stack') = Len(stack)
         /\ \A k \in 1 .. (Len(stack) - 1) : stack'[k] = stack[k]
         /\ stack'[Len(stack)].wire = Top.wire
         /\ IF Top.pc = "left"
            THEN stack'[Len(stack)].left = NumeralValue(TopTerm)
            ELSE /\ stack'[Len(stack)].right = NumeralValue(TopTerm)
                 /\ stack'[Len(stack)].left = Top.left
         /\ wire_values' = wire_values
         /\ evals' = evals
         /\ returned' = returned
         /\ last_return' = last_return
         /\ status' = "running"]_vars

\* b is "c OR 456": with c's value in the cache, the literal 456 has been
\* taken as b's right operand.
C11_Witness ==
    /\ status = "running"
    /\ stack # <<>>
    /\ Top.wire = WireB
    /\ WireB \in DOMAIN WireOps
    /\ WireOps[WireB] = Or(WireC, DecimalString(456))
    /\ Top.pc = "apply"
    /\ Top.right = 456
    /\ WireC \in DOMAIN wire_values
    /\ DOMAIN wire_values = {WireC}

\* ------------------------------------------------------------------------
\* C12: repeated passes
\* ------------------------------------------------------------------------

\* day07's main with the log kept: for each target, the value the first pass
\* over the caller's store returned for it.
InitPasses ==
    /\ Day07Init
    /\ pass_log = [on |-> TRUE, value |-> EmptyMap]
    /\ Day18Idle
    /\ Day19Idle

SpecPasses == InitPasses /\ [][Next]_vars

\* C12: a pass over the caller's store returns, for a target an earlier pass
\* returned a value for, that same value, whatever passes (direct ones,
\* solve_part1, both passes of solve_part2) ran before or in between.
C12_SameStoreSameTargetSameValue ==
    (/\ pass_log.on
     /\ status = "returned"
     /\ pass_ops = "input"
     /\ target \in DOMAIN pass_log.value)
    => result = pass_log.value[target]

\* A pass for a returns again, after earlier passes for a and for b
C12_Witness ==
    /\ pass_log.on
    /\ status = "returned"
    /\ pass_ops = "input"
    /\ target = WireA
    /\ {WireA, WireB} \subseteq DOMAIN pass_log.value
    /\ result = pass_log.value[WireA]

\* ------------------------------------------------------------------------
\* day18.rs: the light grid
\* ------------------------------------------------------------------------

\* Largest steps argument of simulate_lightgrid (the program passes 100)
MaxSteps == 2

\* Point2D::new(x, y)
Point2D(x, y) == <<x, y>>

\* LIGHTS_STUCK_ON (day18.rs:13-20)
LIGHTS_STUCK_ON ==
    {Point2D(0, 0), Point2D(99, 0), Point2D(0, 99), Point2D(99, 99)}

\* process_input_file (day18.rs:57-74) on the lines of a file, each line a
\* sequence of '#' and '.': the character x of line y sets location (x, y).
ProcessLightgrid(lines) ==
    LET row(y) == {Point2D(x, y) : x \in 0 .. (Len(lines[y + 1]) - 1)}
        locs == UNION {row(y) : y \in 0 .. (Len(lines) - 1)}
    IN  [q \in locs |-> lines[q[2] + 1][q[1] + 1] = "#"]

Row3 == [1 .. 3 -> {"#", "."}]

\* The input files: every file of two lines of three lights, and an empty
\* file, a single light, a 3x3 blinker, a full 3x3 grid, lines of unequal
\* length.
LightFiles ==
    [1 .. 2 -> Row3]
    \cup { <<>>,
           << <<"#">> >>,
           << <<".", "#", ".">>, <<".", "#", ".">>, <<".", "#", ".">> >>,
           << <<"#", "#", "#">>, <<"#", "#", "#">>, <<"#", "#", "#">> >>,
           << <<"#", "#", "#">>, <<"#">> >> }

Lightgrids == {ProcessLightgrid(f) : f \in LightFiles}

\* The stuck_on arguments: none (solve_part1), the program's four corners
\* (solve_part2; on these grids all but one lie outside), a corner, two
\* lights of the grid, and a location next to the grid but not of it.
StuckChoices ==
    { {}, LIGHTS_STUCK_ON, {Point2D(0, 0)}, {Point2D(1, 0), Point2D(2, 1)},
      {Point2D(3, 0)} }

\* `for stuck_loc in stuck_on { grid.insert(*stuck_loc, true); }`
\* (day18.rs:100-102, 106-108)
InsertStuck(grid, stuck) ==
    [q \in (DOMAIN grid) \cup stuck |-> IF q \in stuck THEN TRUE ELSE grid[q]]

\* Faulty variant of ContainsKey: the key is never found
ContainsKeyAsNever(grid, loc) == FALSE

\* new_lightgrid.contains_key(loc) (day18.rs:111)
ContainsKey(grid, loc) == loc \in DOMAIN grid

\* loc.get_surrounding_points() (called at day18.rs:127): the eight points
\* next to loc, in a row, a column or a diagonal.
SurroundingPoints(loc) ==
    << Point2D(loc[1] - 1, loc[2] - 1), Point2D(loc[1], loc[2] - 1),
       Point2D(loc[1] + 1, loc[2] - 1), Point2D(loc[1] - 1, loc[2]),
       Point2D(loc[1] + 1, loc[2]), Point2D(loc[1] - 1, loc[2] + 1),
       Point2D(loc[1], loc[2] + 1), Point2D(loc[1] + 1, loc[2] + 1) >>

\* *old_lightgrid.get(&sloc).unwrap_or(&false) (day18.rs:128)
GetOrFalse(grid, sloc) == IF sloc \in DOMAIN grid THEN grid[sloc] ELSE FALSE

RECURSIVE CountOn(_, _)
\* The count_on loop (day18.rs:126-131)
CountOn(slocs, grid) ==
    IF slocs = <<>> THEN 0
    ELSE (IF GetOrFalse(grid, Head(slocs)) THEN 1 ELSE 0) + CountOn(Tail(slocs), grid)

\* The body of determine_new_state (day18.rs:124-138) reading from `grid`
NewStateFrom(loc, grid) ==
    LET count_on == CountOn(SurroundingPoints(loc), grid)
    IN  IF grid[loc] THEN count_on = 2 \/ count_on = 3 ELSE count_on = 3

\* Faulty variant of DetermineNewState: states already set in this step are
\* read in place of the old ones
DetermineNewStateAsInPlace(loc, grid) ==
    NewStateFrom(loc, [q \in DOMAIN grid |->
                         IF q \in DOMAIN new_lightgrid THEN new_lightgrid[q] ELSE grid[q]])

\* determine_new_state(loc, &old_lightgrid) (day18.rs:114, 124-138)
DetermineNewState(loc, grid) == NewStateFrom(loc, grid)

\* day18's caller has its grid and calls simulate_lightgrid(lightgrid, steps,
\* stuck_on).
InitGrid ==
    /\ Day07Idle
    /\ Day19Idle
    /\ lightgrid \in Lightgrids
    /\ steps \in 0 .. MaxSteps
    /\ stuck_on \in StuckChoices
    /\ old_lightgrid = EmptyMap
    /\ new_lightgrid = EmptyMap
    /\ keys = {}
    /\ steps_done = 0
    /\ grid_pc = "called"
    /\ computed = {}

\* The clone with the stuck lights set (day18.rs:99-102)
SimulateLightgrid ==
    /\ grid_pc = "called"
    /\ old_lightgrid' = InsertStuck(lightgrid, stuck_on)
    /\ grid_pc' = "loop"
    /\ UNCHANGED <<lightgrid, steps, stuck_on, new_lightgrid, keys, steps_done,
                   computed>>
    /\ UNCHANGED <<day07vars, day19vars>>

\* A step begins: the new grid with the stuck lights set, and the iteration
\* over the old grid's keys (day18.rs:103-109)
StepBegin ==
    /\ grid_pc = "loop"
    /\ steps_done < steps
    /\ new_lightgrid' = InsertStuck(EmptyMap, stuck_on)
    /\ keys' = DOMAIN old_lightgrid
    /\ computed' = {}
    /\ grid_pc' = "keys"
    /\ UNCHANGED <<lightgrid, steps, stuck_on, old_lightgrid, steps_done>>
    /\ UNCHANGED <<day07vars, day19vars>>

\* The iteration yields a key the new grid holds already (day18.rs:111-113).
\* A HashMap yields its keys in no particular order.
KeySkip ==
    /\ grid_pc = "keys"
    /\ \E loc \in keys :
         /\ ContainsKey(new_lightgrid, loc)
         /\ keys' = keys \ {loc}
    /\ UNCHANGED <<lightgrid, steps, stuck_on, old_lightgrid, new_lightgrid,
                   steps_done, grid_pc, computed>>
    /\ UNCHANGED <<day07vars, day19vars>>

\* Faulty variant of KeyUpdate: only a light that comes out on is inserted
KeyUpdateAsOnOnly ==
    /\ grid_pc = "keys"
    /\ \E loc \in keys :
         /\ ~ContainsKey(new_lightgrid, loc)
         /\ new_lightgrid' =
               IF DetermineNewState(loc, old_lightgrid)
               THEN MapInsert(new_lightgrid, loc, TRUE)
               ELSE new_lightgrid
         /\ computed' = computed \cup {loc}
         /\ keys' = keys \ {loc}
    /\ UNCHANGED <<lightgrid, steps, stuck_on, old_lightgrid, steps_done, grid_pc>>
    /\ UNCHANGED <<day07vars, day19vars>>

\* The iteration yields any other key: its new state is determined and
\* inserted (day18.rs:114-115).
KeyUpdate ==
    /\ grid_pc = "keys"
    /\ \E loc \in keys :
         /\ ~ContainsKey(new_lightgrid, loc)
         /\ new_lightgrid' = MapInsert(new_lightgrid, loc,
                                       DetermineNewState(loc, old_lightgrid))
         /\ computed' = computed \cup {loc}
         /\ keys' = keys \ {loc}
    /\ UNCHANGED <<lightgrid, steps, stuck_on, old_lightgrid, steps_done, grid_pc>>
    /\ UNCHANGED <<day07vars, day19vars>>

\* The iteration is over: the new grid becomes the old one (day18.rs:118)
StepEnd ==
    /\ grid_pc = "keys"
    /\ keys = {}
    /\ old_lightgrid' = new_lightgrid
    /\ new_lightgrid' = EmptyMap
    /\ steps_done' = steps_done + 1
    /\ grid_pc' = "loop"
    /\ UNCHANGED <<lightgrid, steps, stuck_on, keys, computed>>
    /\ UNCHANGED <<day07vars, day19vars>>

\* All steps are done: old_lightgrid is returned (day18.rs:120)
SimulateReturn ==
    /\ grid_pc = "loop"
    /\ steps_done = steps
    /\ grid_pc' = "returned"
    /\ UNCHANGED <<lightgrid, steps, stuck_on, old_lightgrid, new_lightgrid, keys,
                   steps_done, computed>>
    /\ UNCHANGED <<day07vars, day19vars>>

NextGrid ==
    \/ SimulateLightgrid
    \/ StepBegin
    \/ KeySkip
    \/ KeyUpdate
    \/ StepEnd
    \/ SimulateReturn

SpecGrid == InitGrid /\ [][NextGrid]_vars

\* ------------------------------------------------------------------------
\* C13: stuck lights
\* ------------------------------------------------------------------------

\* C13: from the grid before the first step on, every stuck_on location is
\* on in the grid each step starts from (so also after every step and in the
\* returned grid, for 0 steps as well) and in the grid being built, and
\* determine_new_state is never run for it.
C13_StuckLightsStayOn ==
    /\ grid_pc \in {"loop", "keys", "returned"} =>
          \A q \in stuck_on : q \in DOMAIN old_lightgrid /\ old_lightgrid[q]
    /\ grid_pc = "keys" =>
          \A q \in stuck_on : q \in DOMAIN new_lightgrid /\ new_lightgrid[q]
    /\ computed \cap stuck_on = {}

\* Two steps are done and the grid is returned; a stuck light that was off
\* in the input, and that the rule would leave off, is on.
C13_Witness ==
    /\ grid_pc = "returned"
    /\ steps = MaxSteps
    /\ \E q \in stuck_on :
         /\ q \in DOMAIN lightgrid
         /\ ~lightgrid[q]
         /\ old_lightgrid[q]
         /\ CountOn(SurroundingPoints(q), old_lightgrid) = 0

\* ------------------------------------------------------------------------
\* day19.rs: the replacements
\* ------------------------------------------------------------------------

\* Largest length of the medicine molecule
MaxMolLen == 3

\* Strings are sequences of one-byte characters.
Atoms == {"H", "O"}

\* The medicine molecules: every string over the atoms up to the bound,
\* the empty one included.
Molecules == UNION {[1 .. n -> Atoms] : n \in 0 .. MaxMolLen}

\* Left-hand sides of the replacement lines
Inputs == { <<"H">>, <<"O">>, <<"H", "H">> }

\* The right-hand sides process_input_file collected for one left-hand side,
\* in file order (day19.rs:61-69): one, several, a repeated one, one equal
\* to the left-hand side, an empty one.
OutputLists ==
    { << <<"O">> >>,
      << <<"H", "H">>, <<"O">> >>,
      << <<"H", "O">>, <<"O", "H">> >>,
      << <<"H">> >>,
      << <<>>, <<"O">>, <<"O">> >> }

\* input.0 as process_input_file builds it (day19.rs:53-70)
ReplacementMaps == UNION {[S -> OutputLists] : S \in SUBSET Inputs}

\* &med_molecule[left..right] (day19.rs:91)
Slice(str, left, right) == SubSeq(str, left + 1, right)

\* result_molecule.replace_range(left..right, rep) (day19.rs:94)
ReplaceRange(str, left, right, rep) ==
    SubSeq(str, 1, left) \o rep \o SubSeq(str, right + 1, Len(str))

\* Faulty variant of WindowOutside: a window ending at the molecule's end
\* is taken to be outside
WindowOutsideAsInclusive(right, str) == right >= Len(str)

\* `if right > med_molecule.len() { break; }` (day19.rs:87-89)
WindowOutside(right, str) == right > Len(str)

\* day19's main has its parsed input (day19.rs:18) and calls the solvers.
InitMolecule ==
    /\ Day07Idle
    /\ Day18Idle
    /\ replacements \in ReplacementMaps
    /\ med_molecule \in Molecules
    /\ rules_left = {}
    /\ input_str = <<>>
    /\ window_i = 0
    /\ observed = {}
    /\ mol_pc = "called"
    /\ solution = NoValue

\* solve_part1 is entered (day19.rs:79-80)
MoleculeSolvePart1 ==
    /\ mol_pc = "called"
    /\ observed' = {}
    /\ rules_left' = DOMAIN replacements
    /\ mol_pc' = "rules"
    /\ UNCHANGED <<replacements, med_molecule, input_str, window_i, solution>>
    /\ UNCHANGED <<day07vars, day18vars>>

\* replacements.iter() yields a rule, in no particular order (day19.rs:81-82)
RuleNext ==
    /\ mol_pc = "rules"
    /\ \E lhs \in rules_left :
         /\ input_str' = lhs
         /\ rules_left' = rules_left \ {lhs}
    /\ window_i' = 0
    /\ mol_pc' = "window"
    /\ UNCHANGED <<replacements, med_molecule, observed, solution>>
    /\ UNCHANGED <<day07vars, day18vars>>

\* The window has left the molecule (day19.rs:85-89)
WindowBreak ==
    /\ mol_pc = "window"
    /\ WindowOutside(window_i + Len(input_str), med_molecule)
    /\ mol_pc' = "rules"
    /\ UNCHANGED <<replacements, med_molecule, rules_left, input_str, window_i,
                   observed, solution>>
    /\ UNCHANGED <<day07vars, day18vars>>

\* The window holds the left-hand side: one molecule per right-hand side is
\* recorded, and the window moves one index on (day19.rs:91-99)
WindowMatch ==
    LET left == window_i
        right == window_i + Len(input_str)
        outputs == replacements[input_str]
    IN  /\ mol_pc = "window"
        /\ ~WindowOutside(right, med_molecule)
        /\ Slice(med_molecule, left, right) = input_str
        /\ observed' = observed \cup
               {ReplaceRange(med_molecule, left, right, outputs[k]) :
                    k \in 1 .. Len(outputs)}
        /\ window_i' = window_i + 1
        /\ UNCHANGED <<replacements, med_molecule, rules_left, input_str, mol_pc,
                       solution>>
        /\ UNCHANGED <<day07vars, day18vars>>

\* The window holds something else: it moves one index on (day19.rs:91, 99)
WindowNoMatch ==
    LET left == window_i
        right == window_i + Len(input_str)
    IN  /\ mol_pc = "window"
        /\ ~WindowOutside(right, med_molecule)
        /\ Slice(med_molecule, left, right) # input_str
        /\ window_i' = window_i + 1
        /\ UNCHANGED <<replacements, med_molecule, rules_left, input_str, observed,
                       mol_pc, solution>>
        /\ UNCHANGED <<day07vars, day18vars>>

\* Every rule was tried: observed.len() is returned (day19.rs:102)
MoleculePart1Return ==
    /\ mol_pc = "rules"
    /\ rules_left = {}
    /\ solution' = Cardinality(observed)
    /\ mol_pc' = "part1_returned"
    /\ UNCHANGED <<replacements, med_molecule, rules_left, input_str, window_i,
                   observed>>
    /\ UNCHANGED <<day07vars, day18vars>>

\* solve_part2 (day19.rs:106-108), called by main after solve_part1
\* (day19.rs:25) or alone by its test (day19.rs:125): unimplemented!() panics.
MoleculeSolvePart2 ==
    /\ mol_pc \in {"called", "part1_returned"}
    /\ mol_pc' = "part2_panic"
    /\ UNCHANGED <<replacements, med_molecule, rules_left, input_str, window_i,
                   observed, solution>>
    /\ UNCHANGED <<day07vars, day18vars>>

NextMolecule ==
    \/ MoleculeSolvePart1
    \/ RuleNext
    \/ WindowBreak
    \/ WindowMatch
    \/ WindowNoMatch
    \/ MoleculePart1Return
    \/ MoleculeSolvePart2

SpecMolecule == InitMolecule /\ [][NextMolecule]_vars

\* ------------------------------------------------------------------------
\* C14: distinct molecules after one replacement
\* ------------------------------------------------------------------------

\* lhs occurs in str from position p (counted from 1)
OccursAt(str, lhs, p) ==
    /\ p >= 1
    /\ p + Len(lhs) - 1 <= Len(str)
    /\ \A k \in 1 .. Len(lhs) : str[p + k - 1] = lhs[k]

\* str with the Len(lhs) characters from position p replaced by rhs,
\* character by character
Replaced(str, lhs, p, rhs) ==
    [j \in 1 .. (Len(str) - Len(lhs) + Len(rhs)) |->
        IF j < p THEN str[j]
        ELSE IF j < p + Len(rhs) THEN rhs[j - p + 1]
        ELSE str[j - Len(rhs) + Len(lhs)]]

\* The ways to do one replacement: a rule, one of its right-hand sides, an
\* occurrence of its left-hand side
Productions(rules, str) ==
    {<<lhs, k, p>> \in
        UNION {{<<l, n, q>> : n \in 1 .. Len(rules[l]), q \in 1 .. Len(str)} :
                   l \in DOMAIN rules} :
        OccursAt(str, lhs, p)}

\* The distinct molecules one replacement gives
OneReplacement(rules, str) ==
    {Replaced(str, t[1], t[3], rules[t[1]][t[2]]) : t \in Productions(rules, str)}

\* C14: solve_part1 returns the number of distinct molecules one replacement
\* gives: every rule, every right-hand side and every occurrence of the
\* left-hand side (overlapping ones too) contributes its molecule, and equal
\* molecules count once.
C14_CountsDistinctSingleReplacements ==
    mol_pc = "part1_returned" =>
        /\ observed = OneReplacement(replacements, med_molecule)
        /\ solution = Cardinality(OneReplacement(replacements, med_molecule))

\* HHH with a rule for HH (it occurs twice, overlapping) and more ways to
\* replace than distinct molecules
C14_Witness ==
    /\ mol_pc = "part1_returned"
    /\ med_molecule = <<"H", "H", "H">>
    /\ <<"H", "H">> \in DOMAIN replacements
    /\ solution >= 2
    /\ Cardinality(Productions(replacements, med_molecule)) > solution

\* ------------------------------------------------------------------------
\* C15: solve_part2 of day19
\* ------------------------------------------------------------------------

\* C15: a call of solve_part2 on a parsed input completes and returns a
\* number; it does not abort.
C15_Part2ReturnsSolution ==
    mol_pc \in {"part2_returned", "part2_panic"} =>
        /\ mol_pc = "part2_returned"
        /\ solution \in Nat

\* ------------------------------------------------------------------------
\* C16: termination
\* ------------------------------------------------------------------------

\* A step of the running pass
PassStep ==
    \/ RecursiveCached
    \/ RecursiveEvaluate
    \/ EvaluateMatch
    \/ EvaluateMissing
    \/ GetTermLiteral
    \/ GetTermReference
    \/ StackOverflow
    \/ EvaluateApply
    \/ ShiftPanic
    \/ RecursiveInsert

\* The program is one thread that runs until it returns or dies: a pass
\* that can take a step takes it.  (main is not bound to start passes.)
SpecFair == Spec /\ WF_vars(PassStep)

\* The running pass has a defined target in a store that is acyclic and
\* fully defined from it.
AcyclicDefinedPass ==
    /\ target \in DOMAIN WireOps
    /\ ~Cyclic(WireOps, target)
    /\ FullyDefined(WireOps, target)

\* C16 as stated: a pass over an acyclic, fully defined store that has
\* ended has returned a value.
C16_AcyclicPassReturnsValue ==
    (Ended /\ AcyclicDefinedPass) => status = "returned"

\* C16, amended: a pass over an acyclic, fully defined store terminates: it
\* returns a value, or, in a build with overflow checks and with a shift by
\* 16 or more among the target's dependencies, it ends in the overflow panic.
C16_AcyclicPassTerminates ==
    (status = "running" /\ AcyclicDefinedPass)
    ~> \/ status = "returned"
       \/ /\ status = "panic_overflow"
          /\ debug_assertions
          /\ OverflowShift(WireOps, target)

\* A pass for a over the chain a -> b -> c has returned
C16_Witness ==
    /\ status = "returned"
    /\ pass_ops = "input"
    /\ target = WireA
    /\ AcyclicDefinedPass
    /\ Reach(WireOps, target) = Wires
    /\ DOMAIN wire_values = Wires
    /\ result = CacheFreeValue(WireOps, WireA)

\* ------------------------------------------------------------------------
\* C17: reference cycles
\* ------------------------------------------------------------------------

\* Wire w is on a reference cycle of the store
OnCycle(ops, w) == w \in DOMAIN ops /\ w \in Closure(ops, Refs(ops[w]))

\* Some wire is on the call path twice
Reentered == \E j, k \in 1 .. Len(stack) : j < k /\ stack[j].wire = stack[k].wire

\* C17 as stated: a pass whose target's dependencies hold a cycle re-enters
\* the cycle without bound, so it can only end by running out of stack.
C17_CycleRecursesWithoutBound ==
    (Ended /\ Cyclic(WireOps, target)) => status = "stack_overflow"

\* C17, amended: with a cycle among the target's dependencies no wire below
\* the top of the call path has a cache entry, no wire on a cycle ever has
\* one, and the pass never returns a value; it ends by running out of stack
\* with a wire on the call path more than once, unless a missing name or (in
\* a build with overflow checks) a shift by 16 or more is met first.
C17_CycleNeverResolved ==
    Cyclic(WireOps, target) =>
        /\ status # "returned"
        /\ \A w \in DOMAIN wire_values : ~OnCycle(WireOps, w)
        /\ \A k \in 1 .. (Len(stack) - 1) : stack[k].wire \notin DOMAIN wire_values
        /\ status = "stack_overflow" => Reentered /\ Len(stack) = MaxDepth
        /\ status = "panic_missing" => ~FullyDefined(WireOps, target)
        /\ status = "panic_overflow" =>
              debug_assertions /\ OverflowShift(WireOps, target)

\* The pass for a, with a: b OR a over a resolved b, ran out of stack
\* re-entering a, b's value in the cache all along.
C17_Witness ==
    /\ status = "stack_overflow"
    /\ target = WireA
    /\ WireA \in DOMAIN WireOps
    /\ WireOps[WireA] = Or(WireB, WireA)
    /\ WireB \in DOMAIN wire_values
    /\ Reentered
    /\ \A k \in 1 .. Len(stack) : stack[k].wire = WireA

\* ------------------------------------------------------------------------
\* C18: the call path
\* ------------------------------------------------------------------------

RECURSIVE ChainLength(_, _)
\* The number of names on the longest reference chain from name w: w, a name
\* its operation refers to, a name that one refers to, and so on (a name
\* without an entry ends its chain).  Defined where no cycle is reached.
ChainLength(ops, w) ==
    IF w \notin DOMAIN ops \/ Refs(ops[w]) = {} THEN 1
    ELSE LET below == {ChainLength(ops, r) : r \in Refs(ops[w])}
         IN  1 + (CHOOSE n \in below : \A m \in below : m <= n)

\* The longest reference chain among all names of the store
LongestChain(ops) ==
    LET all == {ChainLength(ops, w) : w \in DOMAIN ops}
    IN  IF all = {} THEN 1 ELSE CHOOSE n \in all : \A m \in all : m <= n

\* C18: in a pass with no cycle among the target's dependencies, the names
\* on the call path are pairwise distinct, the first is the target, each
\* next one is referred to by the operation of the one before, and so the
\* nesting depth is at most the number of names on the longest reference
\* chain from the target (and the stack bound is never met).
C18_CallPathIsReferenceChain ==
    (status \in {"running", "panic_missing", "panic_overflow", "stack_overflow"}
       /\ ~Cyclic(WireOps, target)) =>
        /\ \A j, k \in 1 .. Len(stack) : j < k => stack[j].wire # stack[k].wire
        /\ stack # <<>>
        /\ stack[1].wire = target
        /\ \A k \in 1 .. (Len(stack) - 1) :
              /\ stack[k].wire \in DOMAIN WireOps
              /\ stack[k + 1].wire \in Refs(WireOps[stack[k].wire])
        /\ Len(stack) <= ChainLength(WireOps, target)
        /\ (\A w \in DOMAIN WireOps : ~OnCycle(WireOps, w)) =>
              Len(stack) <= LongestChain(WireOps)
        /\ status # "stack_overflow"

\* The call path a, b, c of the chain a -> b -> c: as deep as the chain is long
C18_Witness ==
    /\ status = "running"
    /\ ~Cyclic(WireOps, target)
    /\ Len(stack) = 3
    /\ stack[1].wire = WireA
    /\ stack[2].wire = WireB
    /\ stack[3].wire = WireC
    /\ ChainLength(WireOps, target) = 3

\* ------------------------------------------------------------------------
\* C19: the cache during a pass
\* ------------------------------------------------------------------------

\* Every entry is for a wire of the store, all the names that wire's
\* operation refers to have entries too, and the entry's value is the wire's
\* cache-free value.
CacheSound ==
    \A w \in DOMAIN wire_values :
        /\ w \in DOMAIN WireOps
        /\ Refs(WireOps[w]) \subseteq DOMAIN wire_values
        /\ wire_values[w] = CacheFreeValue(WireOps, w)

\* A step of a running pass keeps every entry as it is, and adds at most
\* one: an entry for the wire whose evaluation just ended, which had none.
CacheGrows ==
    status = "running" =>
        /\ \A w \in DOMAIN wire_values :
              w \in DOMAIN wire_values' /\ wire_values'[w] = wire_values[w]
        /\ wire_values' # wire_values =>
              /\ Top.pc = "insert"
              /\ Top.wire \notin DOMAIN wire_values
              /\ DOMAIN wire_values' = (DOMAIN wire_values) \cup {Top.wire}
              /\ wire_values'[Top.wire] = Top.wire_value

\* C19: the cache of a pass starts empty, is sound in every state, and
\* only grows while the pass runs: no entry is changed or removed.
C19_CacheSoundAndMonotonic ==
    /\ [](status = "running" /\ stack = <<Frame(target)>> => wire_values = EmptyMap)
    /\ []CacheSound
    /\ [][CacheGrows]_vars

\* b and c have different values in the cache, the later one just returned
C19_Witness ==
    /\ status = "running"
    /\ DOMAIN wire_values = {WireB, WireC}
    /\ wire_values[WireB] # wire_values[WireC]
    /\ last_return.wire = WireB
    /\ last_return.value = CacheFreeValue(WireOps, WireB)

\* ------------------------------------------------------------------------
\* C20: the rule of one step
\* ------------------------------------------------------------------------

\* |m - n|
Distance(m, n) == IF m >= n THEN m - n ELSE n - m

\* The locations of the grid that surround loc: not loc, and at most one
\* column and one row away
Around(grid, loc) ==
    {q \in DOMAIN grid :
        /\ q # loc
        /\ Distance(q[1], loc[1]) <= 1
        /\ Distance(q[2], loc[2]) <= 1}

\* The rule: a light that is on stays on with 2 or 3 lights on around it, a
\* light that is off turns on with exactly 3.  Only locations of the grid are
\* counted.
LifeRule(grid, loc) ==
    LET on == Cardinality({q \in Around(grid, loc) : grid[q]})
    IN  IF grid[loc] THEN on \in {2, 3} ELSE on = 3

\* C20: while the keys of the old grid are visited, in whatever order, the
\* locations done so far are exactly the visited ones that are not stuck, and
\* each has in the new grid the state the rule gives it on the old grid.
C20_StepAppliesRuleToOldGrid ==
    grid_pc = "keys" =>
        /\ computed = ((DOMAIN old_lightgrid) \ stuck_on) \ keys
        /\ \A loc \in computed :
              /\ loc \in DOMAIN new_lightgrid
              /\ new_lightgrid[loc] = LifeRule(old_lightgrid, loc)

\* A step is complete: one light went off, one came on, one stayed on.
C20_Witness ==
    /\ grid_pc = "keys"
    /\ keys = {}
    /\ \E p, q, r \in computed :
         /\ old_lightgrid[p] /\ ~new_lightgrid[p]
         /\ ~old_lightgrid[q] /\ new_lightgrid[q]
         /\ old_lightgrid[r] /\ new_lightgrid[r]

\* ------------------------------------------------------------------------
\* C21: the locations of the grid
\* ------------------------------------------------------------------------

\* The locations simulate_lightgrid works on: the caller's and the stuck ones
GridLocations == (DOMAIN lightgrid) \cup stuck_on

\* Before the first step, after every step and on return the grid has
\* exactly the caller's locations and the stuck ones; the grid being built
\* has only such locations, and all of them once every key was visited.
LocationsKept ==
    /\ grid_pc \in {"loop", "keys", "returned"} =>
          DOMAIN old_lightgrid = GridLocations
    /\ grid_pc = "keys" =>
          /\ DOMAIN new_lightgrid = GridLocations \ (keys \ stuck_on)
          /\ keys \subseteq GridLocations

\* C21: the set of locations stays the caller's locations together with the
\* stuck_on locations, none lost and none added, after every step and in the
\* returned grid, and no step changes the caller's grid.
C21_LocationsFixedInputUntouched ==
    /\ []LocationsKept
    /\ [][lightgrid' = lightgrid]_vars

\* Two steps were made on a grid with lights on and a stuck location that
\* is not the caller's: the returned grid has it, its states differ from the
\* caller's, and the caller's grid has its own locations only.
C21_Witness ==
    /\ grid_pc = "returned"
    /\ steps = MaxSteps
    /\ steps_done = steps
    /\ stuck_on \ (DOMAIN lightgrid) # {}
    /\ DOMAIN old_lightgrid = GridLocations
    /\ DOMAIN old_lightgrid # DOMAIN lightgrid
    /\ \E q \in DOMAIN lightgrid : lightgrid[q] /\ ~old_lightgrid[q]

====
